---- MODULE Spec2Model ----
(***************************************************************************)
(* A model of the GRD image pipeline of src/src/image.py (class GRDImage)  *)
(* and of its driver src/geotif.py.                                        *)
(*                                                                         *)
(* Samples.  A sample is a record [k, n, d]:                               *)
(*   k = "num"  the rational n/d, d > 0, in lowest terms;                  *)
(*   k = "nan"  an IEEE NaN;                                               *)
(*   k = "inf"  an IEEE infinity of sign n;                                *)
(*   k = "db"   the decibel value 10*log10(n/d + 1e-10), whose argument    *)
(*              n/d + 1e-10 is strictly positive.                          *)
(* Floating point arithmetic is modelled by exact rational arithmetic      *)
(* (rounding is not modelled); the integer sample types keep their width.  *)
(*                                                                         *)
(* Arrays.  An array is [dtype, shape, px]: shape = <<height, width>> as   *)
(* numpy reports it, px the samples the array holds.  The operations of    *)
(* the class are elementwise or reduce over all samples (np.min, np.max),  *)
(* so px lists the samples without their position; only resampling        *)
(* relates position and value, and the class never reads a resampled       *)
(* sample back.                                                            *)
(*                                                                         *)
(* Text.  A string the code inspects character by character (the file      *)
(* path) is a sequence of one-character strings.                           *)
(***************************************************************************)
EXTENDS Integers, Sequences, FiniteSets, TLC

VARIABLES
    file_path,           \* self.file_path
    raster,              \* the file rasterio opens: band 1 and its tags
    pc,                  \* "new", "ready", "failed"
    data,                \* self.data
    calibration_factor,  \* self.calibration_factor
    image_id,            \* self.image_id
    timestamp,           \* self.timestamp
    err,                 \* the exception the last call raised, or "none"
    calls,               \* the calls made on the image so far, in order
    ret,                 \* what the last downsample() returned (its shape)
    png                  \* the file save_as_png wrote

vars == <<file_path, raster, pc, data, calibration_factor, image_id,
          timestamp, err, calls, ret, png>>

-----------------------------------------------------------------------------
(* Bounds of the model *)

\* the number of samples an enumerated raster holds, at most
MaxLen == 3

\* the small widths and heights enumerated for rasters and thumbnail bounds
MaxDim == 3

-----------------------------------------------------------------------------
(* Numbers *)

Abs(x) == IF x < 0 THEN -x ELSE x

Sign(x) == IF x < 0 THEN -1 ELSE IF x > 0 THEN 1 ELSE 0

RECURSIVE GCD(_, _)
GCD(a, b) == IF b = 0 THEN a ELSE GCD(b, a % b)

\* floor and ceiling of n/d, d > 0 (\div floors in TLA+)
Floor(n, d) == n \div d
Ceil(n, d) == -((-n) \div d)

\* the rational n/d, d # 0, in lowest terms with a positive denominator
Num(n, d) ==
    LET g == GCD(Abs(n), Abs(d))
        s == IF d < 0 THEN -1 ELSE 1
    IN  [k |-> "num", n |-> s * (n \div g), d |-> s * (d \div g)]

Whole(n) == [k |-> "num", n |-> n, d |-> 1]
NaN == [k |-> "nan", n |-> 0, d |-> 1]
Inf(s) == [k |-> "inf", n |-> s, d |-> 1]
Db(n, d) == [k |-> "db", n |-> n, d |-> d]

IsNaN(v) == v.k = "nan"

\* IEEE comparison a < b of two samples that are numbers, infinities or NaN:
\* every comparison with a NaN is false
Lt(a, b) ==
    CASE a.k = "nan" \/ b.k = "nan" -> FALSE
      [] a.k = "inf" /\ b.k = "inf" -> a.n < b.n
      [] a.k = "inf" -> a.n < 0
      [] b.k = "inf" -> b.n > 0
      [] OTHER -> IF a.d = b.d THEN a.n < b.n ELSE a.n * b.d < b.n * a.d

Gt(a, b) == Lt(b, a)
Ge(a, b) == a.k # "nan" /\ b.k # "nan" /\ ~Lt(a, b)
Le(a, b) == Ge(b, a)

\* IEEE a + b and a - b
FAdd(a, b) ==
    CASE a.k = "nan" \/ b.k = "nan" -> NaN
      [] a.k = "inf" /\ b.k = "inf" -> IF a.n = b.n THEN a ELSE NaN
      [] a.k = "inf" -> a
      [] b.k = "inf" -> b
      [] OTHER -> Num(a.n * b.d + b.n * a.d, a.d * b.d)

FNeg(a) == IF a.k = "nan" THEN NaN ELSE [a EXCEPT !.n = -a.n]

FSub(a, b) == FAdd(a, FNeg(b))

\* IEEE a * b
FMul(a, b) ==
    CASE a.k = "nan" \/ b.k = "nan" -> NaN
      [] a.k = "inf" \/ b.k = "inf" ->
            IF Sign(a.n) * Sign(b.n) = 0 THEN NaN ELSE Inf(Sign(a.n) * Sign(b.n))
      [] OTHER -> Num(a.n * b.n, a.d * b.d)

\* IEEE a / b as numpy's true division computes it: 0/0 is NaN, x/0 an infinity
FDiv(a, b) ==
    CASE a.k = "nan" \/ b.k = "nan" -> NaN
      [] a.k = "inf" /\ b.k = "inf" -> NaN
      [] a.k = "inf" -> Inf(a.n * (IF b.n < 0 THEN -1 ELSE 1))
      [] b.k = "inf" -> Whole(0)
      [] b.n = 0 -> IF a.n = 0 THEN NaN ELSE Inf(Sign(a.n))
      [] OTHER -> Num(a.n * b.d, a.d * b.n)

FAbs(a) == IF a.k = "nan" THEN NaN ELSE [a EXCEPT !.n = Abs(a.n)]

-----------------------------------------------------------------------------
(* Fixed-width integer sample types *)

IntTypes == {"uint16", "int16"}

TwoPow16 == 2^16

\* the value an integer of type t holds after an operation whose exact result
\* is x: numpy's integer arithmetic wraps silently
Wrap(t, x) ==
    IF t = "uint16" THEN x % TwoPow16
    ELSE ((x + TwoPow16 \div 2) % TwoPow16) - TwoPow16 \div 2

\* array op scalar for +, -, * within dtype t (a Python int scalar does not
\* widen an integer array; float arrays compute in floating point)
ASub(t, a, b) == IF t \in IntTypes THEN Whole(Wrap(t, a.n - b.n)) ELSE FSub(a, b)
AMul(t, c, a) == IF t \in IntTypes THEN Whole(Wrap(t, c * a.n)) ELSE FMul(Whole(c), a)

-----------------------------------------------------------------------------
(* Reductions and elementwise application over the samples of an array *)

Map(F(_), s) == [i \in 1..Len(s) |-> F(s[i])]

HasNaN(s) == \E i \in 1..Len(s) : IsNaN(s[i])

\* np.min / np.amin: a NaN anywhere makes the minimum NaN
Min(s) ==
    IF HasNaN(s) THEN NaN
    ELSE CHOOSE v \in {s[i] : i \in 1..Len(s)} :
            \A i \in 1..Len(s) : ~Lt(s[i], v)

\* np.max / np.amax
Max(s) ==
    IF HasNaN(s) THEN NaN
    ELSE CHOOSE v \in {s[i] : i \in 1..Len(s)} :
            \A i \in 1..Len(s) : ~Lt(v, s[i])


-----------------------------------------------------------------------------
(* GRDImage.normalize *)

\* the three formulas of image.py:58-73 for one sample x of an array of dtype
\* t whose minimum is lo and whose maximum is hi
Norm01(t, x, lo, hi) == FDiv(ASub(t, x, lo), ASub(t, hi, lo))

Norm11(t, x, lo, hi) ==
    FSub(FDiv(AMul(t, 2, ASub(t, x, lo)), ASub(t, hi, lo)), Whole(1))

Norm255(t, x, lo, hi) == FDiv(AMul(t, 255, ASub(t, x, lo)), ASub(t, hi, lo))

\* NormalizeResult with the final else branch lost: an unrecognised format is
\* normalized as "0-1"
NormalizeResultDefaulting(arr, output_format) ==
    LET t == arr.dtype
        lo == Min(arr.px)
        hi == Max(arr.px)
        f01(x) == Norm01(t, x, lo, hi)
        f11(x) == Norm11(t, x, lo, hi)
        f255(x) == Norm255(t, x, lo, hi)
        done(px) == [err |-> "none",
                     data |-> [dtype |-> "float32", shape |-> arr.shape, px |-> px]]
    IN  IF output_format = "-1-1" THEN done(Map(f11, arr.px))
        ELSE IF output_format = "0-255" THEN done(Map(f255, arr.px))
        ELSE done(Map(f01, arr.px))

\* normalize(output_format) on self.data = arr (image.py:55-82): the exception
\* it raises, or "none", and self.data afterwards
NormalizeResult(arr, output_format) ==
    LET t == arr.dtype
        lo == Min(arr.px)
        hi == Max(arr.px)
        f01(x) == Norm01(t, x, lo, hi)
        f11(x) == Norm11(t, x, lo, hi)
        f255(x) == Norm255(t, x, lo, hi)
        done(px) == [err |-> "none",
                     data |-> [dtype |-> "float32", shape |-> arr.shape, px |-> px]]
    IN  IF output_format = "0-1" THEN done(Map(f01, arr.px))
        ELSE IF output_format = "-1-1" THEN done(Map(f11, arr.px))
        ELSE IF output_format = "0-255" THEN done(Map(f255, arr.px))
        ELSE [err |-> "ValueError", data |-> arr]

-----------------------------------------------------------------------------
(* GRDImage.calibrate *)

\* 1e-10 is 1 / 10^EpsDigits (image.py:127)
EpsDigits == 10

\* floor(d / 10^e), by repeated division so that no intermediate overflows
RECURSIVE ShiftDown(_, _)
ShiftDown(d, e) == IF e = 0 THEN d ELSE ShiftDown(d \div 10, e - 1)

\* whether d is a multiple of 10^e
RECURSIVE MultipleOfTenPow(_, _)
MultipleOfTenPow(d, e) ==
    IF e = 0 THEN TRUE ELSE d % 10 = 0 /\ MultipleOfTenPow(d \div 10, e - 1)

\* EpsSign with the epsilon subtracted: the sign of n/d - 1e-10
EpsSignSubtracted(n, d) ==
    LET q == ShiftDown(d, EpsDigits)
        exact == MultipleOfTenPow(d, EpsDigits)
    IN  IF n <= 0 \/ n < q \/ (n = q /\ ~exact) THEN -1
        ELSE IF n = q THEN 0
        ELSE 1

\* the sign of n/d + 1e-10, d > 0: that of n * 10^10 + d
EpsSign(n, d) ==
    LET q == ShiftDown(d, EpsDigits)
        exact == MultipleOfTenPow(d, EpsDigits)
    IN  IF n >= 0 \/ -n < q \/ (-n = q /\ ~exact) THEN 1
        ELSE IF -n = q THEN 0
        ELSE -1

\* 10 * np.log10(sigma0 + 1e-10) of image.py:127 for one sample: the logarithm
\* of a negative number is NaN, of zero minus infinity
Sigma0Db(sigma0) ==
    CASE sigma0.k = "nan" -> NaN
      [] sigma0.k = "inf" -> IF sigma0.n > 0 THEN Inf(1) ELSE NaN
      [] OTHER ->
            LET s == EpsSign(sigma0.n, sigma0.d)
            IN  IF s < 0 THEN NaN
                ELSE IF s = 0 THEN Inf(-1)
                ELSE Db(sigma0.n, sigma0.d)

\* the guard of image.py:112: the data is not within [0, 1]
OutOfRange(arr) ==
    Lt(Min(arr.px), Whole(0)) \/ Gt(Max(arr.px), Whole(1))

\* whether calibrate() raises ValueError (image.py:112-115)
CalibrateRaises(arr) == OutOfRange(arr)

\* np.abs(x) ** 2 within the array's dtype (image.py:126)
AbsSquared(t, x) ==
    IF t \in IntTypes
    THEN Whole(Wrap(t, Wrap(t, Abs(x.n)) * Wrap(t, Abs(x.n))))
    ELSE FMul(FAbs(x), FAbs(x))

\* the range adjustment of image.py:118-121
AdjustedData(arr) ==
    LET lo == Min(arr.px)
        hi == Max(arr.px)
        by255(x) == FDiv(x, Whole(255))
        halve(x) == FDiv(IF arr.dtype \in IntTypes
                         THEN Whole(Wrap(arr.dtype, x.n + 1))
                         ELSE FAdd(x, Whole(1)), Whole(2))
    IN  IF Ge(lo, Whole(0)) /\ Gt(hi, Whole(1))
        THEN [arr EXCEPT !.dtype = "float64", !.px = Map(by255, arr.px)]
        ELSE IF Lt(lo, Whole(0))
        THEN [arr EXCEPT !.dtype = "float64", !.px = Map(halve, arr.px)]
        ELSE arr

\* self.data after a calibrate() that does not raise (image.py:118-129)
CalibratedData(arr, factor) ==
    LET adj == AdjustedData(arr)
        db(x) == Sigma0Db(FMul(factor, AbsSquared(adj.dtype, x)))
    IN  [dtype |-> IF arr.dtype = "float32" THEN "float32" ELSE "float64",
         shape |-> arr.shape, px |-> Map(db, adj.px)]

-----------------------------------------------------------------------------
(* GRDImage.downsample: PIL's Image.thumbnail on an image of size <<w, h>> *)

\* round_aspect(H * aspect): of floor and ceiling the one whose aspect ratio
\* n/H is nearer to w/h (the floor when they tie), at least 1
ThumbWidth(w, h, H) ==
    LET lo == Floor(H * w, h)
        hi == Ceil(H * w, h)
        best == IF Abs(w * H - lo * h) <= Abs(w * H - hi * h) THEN lo ELSE hi
    IN  IF best < 1 THEN 1 ELSE best

\* round_aspect(W / aspect): of floor and ceiling the one whose aspect ratio
\* W/n is nearer to w/h (a candidate 0 is taken first), at least 1
ThumbHeight(w, h, W) ==
    LET lo == Floor(W * h, w)
        hi == Ceil(W * h, w)
        best == IF lo = 0 THEN lo
                ELSE IF Abs(w * lo - W * h) * hi <= Abs(w * hi - W * h) * lo
                THEN lo ELSE hi
    IN  IF best < 1 THEN 1 ELSE best

\* Thumbnail without the early return for a source within the bound: the
\* image is always resized to fit the bound
ThumbnailAlwaysResized(w, h, size) ==
    LET W == size[1]
        H == size[2]
    IN  IF W * h >= w * H THEN <<ThumbWidth(w, h, H), H>>
        ELSE <<W, ThumbHeight(w, h, W)>>

\* the size <<width, height>> of the image after image.thumbnail(size)
\* (image.py:151), for a size of positive width and height
Thumbnail(w, h, size) ==
    LET W == size[1]
        H == size[2]
    IN  IF W >= w /\ H >= h THEN <<w, h>>
        ELSE IF W * h >= w * H THEN <<ThumbWidth(w, h, H), H>>
        ELSE <<W, ThumbHeight(w, h, W)>>

\* the shape of the array downsample(size) returns (image.py:150-153):
\* numpy shapes are <<height, width>>, PIL sizes <<width, height>>
DownsampledShape(arr, size) ==
    LET t == Thumbnail(arr.shape[2], arr.shape[1], size)
    IN  <<t[2], t[1]>>

\* self.data after downsample(size): the method assigns nothing to it
DownsampledData(arr, size) == arr

-----------------------------------------------------------------------------
(* GRDImage.save_as_png *)

\* what casting a NaN to uint8 may give: the C conversion is undefined, so the
\* result depends on the build; two representative outcomes
NaNCastOutcomes == {0, 255}

\* Pixels without the scaling by 255: x.clip(0, 255).astype(np.uint8)
PixelsUnscaled(t, x) ==
    LET clip(v) == IF v < 0 THEN 0 ELSE IF v > 255 THEN 255 ELSE v
    IN  CASE t \in IntTypes -> {clip(x.n)}
          [] x.k = "nan" -> NaNCastOutcomes
          [] x.k = "inf" -> {IF x.n > 0 THEN 255 ELSE 0}
          [] x.k = "num" -> {clip(Floor(x.n, x.d))}
          [] x.k = "db" -> IF x.n <= x.d THEN {0} ELSE 0..255

\* the uint8 values (x * 255).clip(0, 255).astype(np.uint8) may give for one
\* sample x of an array of dtype t (image.py:167)
Pixels(t, x) ==
    LET clip(v) == IF v < 0 THEN 0 ELSE IF v > 255 THEN 255 ELSE v
    IN  CASE t \in IntTypes -> {clip(Wrap(t, 255 * x.n))}
          [] x.k = "nan" -> NaNCastOutcomes
          [] x.k = "inf" -> {IF x.n > 0 THEN 255 ELSE 0}
          [] x.k = "num" -> {clip(Floor(255 * x.n, x.d))}
          [] x.k = "db" ->
                \* 255 * 10 * log10(a) with a = n/d + 1e-10: below 1 while
                \* a < 10^(1/2550) = 1.00090..., 255 and more from
                \* a = 10^(1/10) = 1.25892... on
                IF x.n <= x.d \/ x.n * 10000 <= x.d * 10008 THEN {0}
                ELSE IF x.n * 1000 >= x.d * 1259 THEN {255}
                ELSE 0..254

\* the sequences whose i-th element is drawn from sets[i]
RECURSIVE Choices(_)
Choices(sets) ==
    IF Len(sets) = 0 THEN {<<>>}
    ELSE {<<first>> \o rest : first \in sets[1], rest \in Choices(Tail(sets))}

\* the images save_as_png may write for self.data = arr (image.py:167-170)
SavedImages(arr) ==
    LET px(x) == Pixels(arr.dtype, x)
    IN  {[written |-> TRUE, shape |-> arr.shape, px |-> p] :
            p \in Choices(Map(px, arr.px))}

-----------------------------------------------------------------------------
(* GRDImage.extract_info_from_filename *)

DigitChars == <<"0", "1", "2", "3", "4", "5", "6", "7", "8", "9">>

IsDigit(c) == \E i \in 1..Len(DigitChars) : DigitChars[i] = c

DigitVal(c) == (CHOOSE i \in 1..Len(DigitChars) : DigitChars[i] = c) - 1

\* int(text) for a text of digits
RECURSIVE ToInt(_)
ToInt(text) ==
    IF Len(text) = 0 THEN 0
    ELSE 10 * ToInt(SubSeq(text, 1, Len(text) - 1)) + DigitVal(text[Len(text)])

\* Padded without the padding: n in decimal, as %d prints it
RECURSIVE Unpadded(_, _)
Unpadded(n, width) ==
    IF n < 10 THEN <<DigitChars[n + 1]>>
    ELSE Unpadded(n \div 10, width) \o <<DigitChars[(n % 10) + 1]>>

\* n in decimal, zero-padded to width digits (the %04d / %02d of isoformat)
RECURSIVE Padded(_, _)
Padded(n, width) ==
    IF width = 0 THEN <<>>
    ELSE Padded(n \div 10, width - 1) \o <<DigitChars[(n % 10) + 1]>>

\* whether lit occurs in p at index i
HasAt(p, i, lit) ==
    i + Len(lit) - 1 <= Len(p) /\ SubSeq(p, i, i + Len(lit) - 1) = lit

\* the index after the longest run of digits of p that starts at i
RECURSIVE DigitRunEnd(_, _)
DigitRunEnd(p, i) ==
    IF i <= Len(p) /\ IsDigit(p[i]) THEN DigitRunEnd(p, i + 1) ELSE i

\* the pattern ICEYE_X\d+_GRD_(SM|SL)_(\d+)_(\d{8}T\d{6}) tried at index i
\* (image.py:184): a greedy \d+ that a non-digit must follow takes the whole
\* run of digits
MatchAt(p, i) ==
    LET a == i + 7
        b == DigitRunEnd(p, a)
        c == b + 5
        e == c + 3
        f == DigitRunEnd(p, e)
        g == f + 1
        ok == /\ HasAt(p, i, <<"I", "C", "E", "Y", "E", "_", "X">>)
              /\ b > a
              /\ HasAt(p, b, <<"_", "G", "R", "D", "_">>)
              /\ (HasAt(p, c, <<"S", "M", "_">>) \/ HasAt(p, c, <<"S", "L", "_">>))
              /\ f > e
              /\ HasAt(p, f, <<"_">>)
              /\ DigitRunEnd(p, g) >= g + 8
              /\ HasAt(p, g + 8, <<"T">>)
              /\ DigitRunEnd(p, g + 9) >= g + 15
    IN  IF ok THEN [ok |-> TRUE, group2 |-> SubSeq(p, e, f - 1),
                    group3 |-> SubSeq(p, g, g + 14)]
        ELSE [ok |-> FALSE, group2 |-> <<>>, group3 |-> <<>>]

\* re.search: the match at the leftmost index that has one (image.py:185)
Search(p) ==
    IF \E i \in 1..Len(p) : MatchAt(p, i).ok
    THEN MatchAt(p, CHOOSE i \in 1..Len(p) :
                        MatchAt(p, i).ok /\ \A j \in 1..(i - 1) : ~MatchAt(p, j).ok)
    ELSE [ok |-> FALSE, group2 |-> <<>>, group3 |-> <<>>]

IsLeap(y) == y % 4 = 0 /\ (y % 100 # 0 \/ y % 400 = 0)

DaysIn(y, m) ==
    IF m = 2 THEN (IF IsLeap(y) THEN 29 ELSE 28)
    ELSE IF m \in {4, 6, 9, 11} THEN 30 ELSE 31

\* datetime.strptime(text, "%Y%m%dT%H%M%S").isoformat() for a text of 8 digits,
\* "T" and 6 digits (image.py:188-190): ValueError unless the fields are a date
\* and a time of day
Strptime(text) ==
    LET y == ToInt(SubSeq(text, 1, 4))
        m == ToInt(SubSeq(text, 5, 6))
        d == ToInt(SubSeq(text, 7, 8))
        H == ToInt(SubSeq(text, 10, 11))
        M == ToInt(SubSeq(text, 12, 13))
        S == ToInt(SubSeq(text, 14, 15))
        ok == /\ y >= 1
              /\ m \in 1..12
              /\ d >= 1 /\ d <= DaysIn(y, m)
              /\ H <= 23 /\ M <= 59 /\ S <= 59
    IN  IF ok
        THEN [err |-> "none",
              iso |-> Padded(y, 4) \o <<"-">> \o Padded(m, 2) \o <<"-">>
                      \o Padded(d, 2) \o <<"T">> \o Padded(H, 2) \o <<":">>
                      \o Padded(M, 2) \o <<":">> \o Padded(S, 2)]
        ELSE [err |-> "ValueError", iso |-> <<>>]

\* extract_info_from_filename (image.py:183-197)
ExtractInfo(p) ==
    LET match == Search(p)
        stamp == Strptime(match.group3)
    IN  IF match.ok /\ stamp.err = "none"
        THEN [err |-> "none", image_id |-> match.group2, timestamp |-> stamp.iso]
        ELSE [err |-> "ValueError", image_id |-> <<>>, timestamp |-> <<>>]

-----------------------------------------------------------------------------
(* GRDImage.read_grd *)

\* float(text) for the decimal texts [-]digits[.digits]
ParseFloat(text) ==
    LET neg == Len(text) > 0 /\ text[1] = "-"
        body == IF neg THEN Tail(text) ELSE text
        dot == IF \E i \in 1..Len(body) : body[i] = "."
               THEN CHOOSE i \in 1..Len(body) : body[i] = "."
               ELSE Len(body) + 1
        whole == SubSeq(body, 1, dot - 1)
        frac == SubSeq(body, dot + 1, Len(body))
        v == Num(ToInt(whole \o frac), 10 ^ Len(frac))
    IN  IF neg THEN FNeg(v) ELSE v

\* float(tags.get("CALIBRATION_FACTOR", 1.0)) (image.py:40); tags maps the
\* keys the file has to their texts
TagFactor(tags) ==
    IF "CALIBRATION_FACTOR" \in DOMAIN tags
    THEN ParseFloat(tags["CALIBRATION_FACTOR"])
    ELSE Whole(1)

\* src.read(1) (image.py:38)
ReadBand(r) == [dtype |-> r.dtype, shape |-> r.shape, px |-> r.band]

-----------------------------------------------------------------------------
(* The files the model is run on *)

\* file names: that of the tests (tests/test_image.py:7) and names that differ
\* from it in one field
NameOf(sat, mode, id, date, time, tail) ==
    <<"I", "C", "E", "Y", "E", "_", "X">> \o sat \o <<"_", "G", "R", "D", "_">>
    \o mode \o <<"_">> \o id \o <<"_">> \o date \o <<"T">> \o time \o tail

TestSat == <<"4">>
TestId == <<"9", "2", "8", "1">>
TestDate == <<"2", "0", "1", "9", "0", "9", "0", "3">>
TestTime == <<"1", "4", "4", "9", "4", "6">>
TestTail == <<".", "t", "i", "f">>

Names ==
    {NameOf(sat, <<"S", "M">>, TestId, TestDate, TestTime, TestTail) :
        sat \in {TestSat, <<>>}}
    \cup {NameOf(TestSat, mode, TestId, TestDate, TestTime, TestTail) :
        mode \in {<<"S", "M">>, <<"S", "L">>, <<"S", "C">>}}
    \cup {NameOf(TestSat, <<"S", "M">>, id, TestDate, TestTime, TestTail) :
        id \in {TestId, <<"0", "0", "7">>, <<>>}}
    \cup {NameOf(TestSat, <<"S", "M">>, TestId, date, TestTime, TestTail) :
        date \in {TestDate, <<"2", "0", "2", "0", "0", "2", "2", "9">>, <<"2", "0", "1", "9", "0", "2", "2", "9">>, <<"2", "0", "1", "9", "1", "3", "0", "1">>, <<"2", "0", "1", "9", "0", "9", "0">>, <<"2", "0", "1", "9", "0", "9", "0", "3", "0">>}}
    \cup {NameOf(TestSat, <<"S", "M">>, TestId, TestDate, time, TestTail) :
        time \in {TestTime, <<"2", "4", "0", "0", "0", "0">>, <<"2", "3", "5", "9", "6", "0">>, <<"0", "0", "0", "0", "0", "0">>}}
    \cup {NameOf(TestSat, <<"S", "M">>, TestId, TestDate, TestTime, tail) :
        tail \in {TestTail, <<"7", ".", "t", "i", "f">>}}

\* directories: none, that of the tests, one that matches the pattern itself,
\* and one that matches it with digits that are no date
Dirs == {<<>>, <<"d", "a", "t", "a", "/", "i", "n", "p", "u", "t", "/">>, <<"I", "C", "E", "Y", "E", "_", "X", "1", "_", "G", "R", "D", "_", "S", "L", "_", "7", "_", "2", "0", "2", "0", "0", "2", "2", "9", "T", "2", "3", "5", "9", "5", "9", "/">>, <<"I", "C", "E", "Y", "E", "_", "X", "2", "_", "G", "R", "D", "_", "S", "M", "_", "5", "_", "2", "0", "1", "9", "1", "3", "4", "5", "T", "0", "0", "0", "0", "0", "0", "/">>}

Paths == {dir \o name : dir \in Dirs, name \in Names}

TestPath == <<"d", "a", "t", "a", "/", "i", "n", "p", "u", "t", "/">> \o NameOf(TestSat, <<"S", "M">>, TestId, TestDate, TestTime, TestTail)

\* the samples enumerated for each sample type, in increasing order (NaN first)
SampleList(t) ==
    CASE t = "uint16" -> <<Whole(0), Whole(1), Whole(300), Whole(40000)>>
      [] t = "int16" -> <<Whole(-32768), Whole(0), Whole(1), Whole(32767)>>
      [] t = "float32" -> <<NaN, Whole(0), Num(1, 2), Whole(1), Whole(3)>>

\* the bands of 1..len samples of type t; the order of the samples of an array
\* plays no part in the model, so each band is enumerated once, sorted
Bands(t, len) ==
    LET list == SampleList(t)
        sorted(f) == \A i \in 1..(Len(f) - 1) : f[i] <= f[i + 1]
    IN  UNION {{[i \in 1..n |-> list[f[i]]] :
                    f \in {g \in [1..n -> 1..Len(list)] : sorted(g)}} : n \in 1..len}

NoTags == [key \in {} |-> <<>>]

FactorTag(text) == [key \in {"CALIBRATION_FACTOR"} |-> text]

TagTexts == {<<"-", "1">>, <<"0">>, <<"2">>, <<"0", ".", "5">>}

DefaultShape == <<2, 2>>

Dims == (1..MaxDim) \cup {180, 256, 700, 1000}

\* the rasters: every band with the default shape and no tag; the short float
\* bands with every tag; every shape with a band of two samples (one sample
\* for the 1 x 1 raster)
Rasters ==
    UNION {{[dtype |-> t, shape |-> DefaultShape, band |-> b, tags |-> NoTags] :
                b \in Bands(t, MaxLen)} : t \in {"uint16", "int16", "float32"}}
    \cup {[dtype |-> "float32", shape |-> DefaultShape, band |-> b,
           tags |-> FactorTag(text)] :
            b \in Bands("float32", 2), text \in TagTexts}
    \cup {[dtype |-> "uint16", shape |-> <<h, w>>,
           band |-> IF h * w = 1 THEN <<Whole(0)>> ELSE <<Whole(0), Whole(1)>>,
           tags |-> NoTags] : h \in Dims \ {180, 256}, w \in Dims \ {180, 256}}

TestRaster ==
    [dtype |-> "uint16", shape |-> DefaultShape, band |-> <<Whole(0), Whole(1)>>,
     tags |-> NoTags]

\* the arguments enumerated for the calls
ValidFormats == {"0-1", "-1-1", "0-255"}

Formats == ValidFormats \cup {"invalid-format", "0-1 ", ""}

Sizes == {<<W, H>> : W \in Dims \ {700, 1000}, H \in Dims \ {700, 1000}}

-----------------------------------------------------------------------------
(* State *)

NoArray == [dtype |-> "none", shape |-> <<0, 0>>, px |-> <<>>]

NoFactor == [k |-> "unset", n |-> 0, d |-> 1]

NoPng == [written |-> FALSE, shape |-> <<0, 0>>, px |-> <<>>]

Call(op, fmt, size) == [op |-> op, fmt |-> fmt, size |-> size]

\* the position of a call in the order of the driver (geotif.py:46-50)
Rank(op) ==
    CASE op = "normalize" -> 1
      [] op = "calibrate" -> 2
      [] op = "downsample" -> 3
      [] op = "save_as_png" -> 4

\* the calls made so far are all earlier in the driver's order than op
Before(op) == \A i \in 1..Len(calls) : Rank(calls[i].op) < Rank(op)

\* a file is chosen: either a path with the test raster or the test path with
\* a raster; no GRDImage exists yet
Init ==
    /\ \/ file_path \in Paths /\ raster = TestRaster
       \/ file_path = TestPath /\ raster \in Rasters
    /\ pc = "new"
    /\ data = NoArray
    /\ calibration_factor = NoFactor
    /\ image_id = <<>>
    /\ timestamp = <<>>
    /\ err = "none"
    /\ calls = <<>>
    /\ ret = <<>>
    /\ png = NoPng

\* GRDImage(file_path) (image.py:16-28): read_grd, then
\* extract_info_from_filename, whose ValueError ends the construction
Construct ==
    /\ pc = "new"
    /\ data' = ReadBand(raster)
    /\ calibration_factor' = TagFactor(raster.tags)
    /\ LET info == ExtractInfo(file_path)
       IN  /\ image_id' = info.image_id
           /\ timestamp' = info.timestamp
           /\ err' = info.err
           /\ pc' = IF info.err = "none" THEN "ready" ELSE "failed"
    /\ UNCHANGED <<file_path, raster, calls, ret, png>>

\* image.normalize(output_format) (image.py:48-82)
Normalize(output_format) ==
    /\ pc = "ready"
    /\ Before("normalize")
    /\ LET r == NormalizeResult(data, output_format)
       IN  /\ data' = r.data
           /\ err' = r.err
           /\ pc' = IF r.err = "none" THEN "ready" ELSE "failed"
    /\ calls' = Append(calls, Call("normalize", output_format, <<>>))
    /\ UNCHANGED <<file_path, raster, calibration_factor, image_id, timestamp,
                   ret, png>>

\* image.calibrate() (image.py:84-136)
Calibrate ==
    /\ pc = "ready"
    /\ Before("calibrate")
    /\ IF CalibrateRaises(data)
       THEN data' = data /\ err' = "ValueError" /\ pc' = "failed"
       ELSE /\ data' = CalibratedData(data, calibration_factor)
            /\ err' = "none"
            /\ pc' = "ready"
    /\ calls' = Append(calls, Call("calibrate", "", <<>>))
    /\ UNCHANGED <<file_path, raster, calibration_factor, image_id, timestamp,
                   ret, png>>

\* image.downsample(size) (image.py:138-156), on floating point data; the
\* 8-bit copy of image.py:148 is computed and dropped, the thumbnail is made of
\* self.data itself and returned
Downsample(size) ==
    /\ pc = "ready"
    /\ Before("downsample")
    /\ data.dtype \notin IntTypes
    /\ ret' = DownsampledShape(data, size)
    /\ data' = DownsampledData(data, size)
    /\ err' = "none"
    /\ calls' = Append(calls, Call("downsample", "", size))
    /\ UNCHANGED <<file_path, raster, pc, calibration_factor, image_id,
                   timestamp, png>>

\* image.save_as_png(path) (image.py:158-174)
SaveAsPng ==
    /\ pc = "ready"
    /\ Before("save_as_png")
    /\ png' \in SavedImages(data)
    /\ err' = "none"
    /\ calls' = Append(calls, Call("save_as_png", "", <<>>))
    /\ UNCHANGED <<file_path, raster, pc, data, calibration_factor, image_id,
                   timestamp, ret>>

Next ==
    \/ Construct
    \/ \E output_format \in Formats : Normalize(output_format)
    \/ Calibrate
    \/ \E size \in Sizes : Downsample(size)
    \/ SaveAsPng

Spec == Init /\ [][Next]_vars

-----------------------------------------------------------------------------
(* Vocabulary of the properties *)

LastCall == calls[Len(calls)]

\* the last call made on the image was op
Called(op) == Len(calls) > 0 /\ LastCall.op = op

\* the step is a call of calibrate()
CalibrateStep == calls' = Append(calls, Call("calibrate", "", <<>>))

\* the raster's maximum is greater than its minimum
RasterSpread == Lt(Min(raster.band), Max(raster.band))

\* the image was loaded and normalize(f), f a valid format, was its first call
NormalizedFirst ==
    /\ Len(calls) >= 1
    /\ calls[1].op = "normalize"
    /\ calls[1].fmt \in ValidFormats

InUnit(x) == Ge(x, Whole(0)) /\ Le(x, Whole(1))

OutsideUnit(x) == Lt(x, Whole(0)) \/ Gt(x, Whole(1))

AllInUnit(s) == \A i \in 1..Len(s) : InUnit(s[i])

\* the min-max formula of a format in exact arithmetic
MinMaxFormula(fmt, x, lo, hi) ==
    LET unit == FDiv(FSub(x, lo), FSub(hi, lo))
    IN  CASE fmt = "0-1" -> unit
          [] fmt = "-1-1" -> FSub(FMul(Whole(2), unit), Whole(1))
          [] fmt = "0-255" -> FMul(Whole(255), unit)

LowerBound(fmt) == IF fmt = "-1-1" THEN Whole(-1) ELSE Whole(0)

UpperBound(fmt) == IF fmt = "0-255" THEN Whole(255) ELSE Whole(1)

-----------------------------------------------------------------------------
(* C1 *)

\* C1: for a raster with max > min and each of the three formats f,
\* normalize(f) followed by calibrate() raises nothing and leaves data free
\* of NaN (so the sequence of the driver goes on to write the PNG).
C1_NormalizeThenCalibrateSucceeds ==
    (NormalizedFirst /\ Len(calls) >= 2 /\ calls[2].op = "calibrate" /\ RasterSpread)
        => (err = "none" /\ pc = "ready" /\ ~HasNaN(data.px))

-----------------------------------------------------------------------------
(* C2 *)

\* C2: calibrate() applies the sigma0 formula only when every value of data
\* lies in [0, 1]; when data holds a value below 0 or above 1 it raises
\* ValueError and leaves data unchanged.
C2_CalibrateOnlyWithinUnitRange ==
    [][CalibrateStep =>
          /\ (err' = "none" => AllInUnit(data.px))
          /\ ((\E i \in 1..Len(data.px) : OutsideUnit(data.px[i]))
                => (err' = "ValueError" /\ data' = data))]_vars

-----------------------------------------------------------------------------
(* C3 *)

\* C3: after downsample(size) the image's data is the downsampled array, so
\* that the image save_as_png writes afterwards is no wider than size[0] and
\* no higher than size[1].
C3_SavedImageIsThumbnail ==
    \A i \in 1..Len(calls) :
        calls[i].op = "downsample" =>
            /\ data.shape = ret
            /\ png.written =>
                  /\ png.shape[2] <= calls[i].size[1]
                  /\ png.shape[1] <= calls[i].size[2]

-----------------------------------------------------------------------------
(* C4 *)

\* C4: for a raster with max > min of whatever sample type, normalize(f) sets
\* each sample to exactly the min-max formula of f.
C4_NormalizeIsMinMaxFormula ==
    (NormalizedFirst /\ Len(calls) = 1 /\ RasterSpread) =>
        \A i \in 1..Len(data.px) :
            data.px[i] = MinMaxFormula(calls[1].fmt, raster.band[i],
                                       Min(raster.band), Max(raster.band))

-----------------------------------------------------------------------------
(* C5 *)

\* C5: for an array with max > min, every value after normalize(f) lies in
\* the range of f: [0, 1], [-1, 1] or [0, 255].
C5_NormalizedWithinRange ==
    (NormalizedFirst /\ Len(calls) = 1 /\ RasterSpread) =>
        \A i \in 1..Len(data.px) :
            /\ Ge(data.px[i], LowerBound(calls[1].fmt))
            /\ Le(data.px[i], UpperBound(calls[1].fmt))

-----------------------------------------------------------------------------
(* C6 *)

\* C6 as stated: for data within [0, 1] and whatever calibration factor the
\* image holds, calibrate() produces no NaN.
C6_CalibrateNeverNaN ==
    [][(CalibrateStep /\ AllInUnit(data.px)) => ~HasNaN(data'.px)]_vars

\* C6 as amended: for data within [0, 1] and a calibration factor that is not
\* negative, the argument sigma0 + 1e-10 of log10 is strictly positive for
\* every element, so calibrate() produces no NaN.
C6_CalibrateNeverNaNForNonNegativeFactor ==
    [][(CalibrateStep /\ AllInUnit(data.px) /\ Ge(calibration_factor, Whole(0)))
          => \A i \in 1..Len(data'.px) : data'.px[i].k = "db"]_vars

\* calibrate() has run with a factor that is not negative on data holding a 0,
\* whose sigma0 is 0: the logarithm was taken of the epsilon alone
C6_Witness ==
    /\ Called("calibrate")
    /\ err = "none"
    /\ Ge(calibration_factor, Whole(0))
    /\ \E i \in 1..Len(data.px) : data.px[i] = Db(0, 1)

-----------------------------------------------------------------------------
(* C7 *)

\* C7: downsample((W, H)) returns an array no wider than W and no higher than
\* H, never larger than the source (a source within the bound keeps its
\* size), whose aspect ratio is the source's up to the rounding of a side to
\* whole pixels; a 700 x 1000 source with bound (256, 180) gives 126 x 180.
C7_ThumbnailFitsBound ==
    Called("downsample") =>
        LET W == LastCall.size[1]
            H == LastCall.size[2]
            w == data.shape[2]
            h == data.shape[1]
            w2 == ret[2]
            h2 == ret[1]
        IN  /\ 1 <= w2 /\ w2 <= W /\ w2 <= w
            /\ 1 <= h2 /\ h2 <= H /\ h2 <= h
            /\ (w <= W /\ h <= H) => ret = data.shape
            /\ Abs(w2 * h - h2 * w) < (IF w > h THEN w ELSE h)
            /\ (w = 700 /\ h = 1000 /\ W = 256 /\ H = 180) => ret = <<180, 126>>

\* a 700 x 1000 image was downsampled to the bound (256, 180)
C7_Witness ==
    /\ Called("downsample")
    /\ data.shape = <<1000, 700>>
    /\ LastCall.size = <<256, 180>>
    /\ ret = <<180, 126>>

-----------------------------------------------------------------------------
(* C8 *)

AllDigits(text) == \A i \in 1..Len(text) : IsDigit(text[i])

\* the fields of the substring of p at index i that has a digits after
\* ICEYE_X and b digits after (SM|SL)_
FieldsAt(p, i, a, b) ==
    LET m == i + 7 + a + 5
        g == m + 3 + b + 1
    IN  [sat |-> SubSeq(p, i + 7, i + 6 + a),
         mode |-> SubSeq(p, m, m + 1),
         id |-> SubSeq(p, m + 3, m + 2 + b),
         date |-> SubSeq(p, g, g + 7),
         time |-> SubSeq(p, g + 9, g + 14)]

\* p holds at index i a text ICEYE_X<a digits>_GRD_(SM|SL)_<b digits>_<8
\* digits>T<6 digits>
OccursAt(p, i, a, b) ==
    /\ i + 7 + a + 5 + 3 + b + 1 + 15 - 1 <= Len(p)
    /\ LET f == FieldsAt(p, i, a, b)
       IN  /\ AllDigits(f.sat) /\ AllDigits(f.id)
           /\ AllDigits(f.date) /\ AllDigits(f.time)
           /\ f.mode \in {<<"S", "M">>, <<"S", "L">>}
           /\ HasAt(p, i, NameOf(f.sat, f.mode, f.id, f.date, f.time, <<>>))

\* the places <<i, a, b>> at which p holds such a text
Occurrences(p) ==
    LET N == 1..Len(p)
        starts == {i \in N : HasAt(p, i, <<"I", "C", "E", "Y", "E", "_", "X">>)}
        sats(i) == {a \in N : HasAt(p, i + 7 + a, <<"_", "G", "R", "D", "_">>)}
        ids(i, a) == {b \in N : OccursAt(p, i, a, b)}
    IN  UNION {UNION {{<<i, a, b>> : b \in ids(i, a)} : a \in sats(i)} : i \in starts}

\* the leftmost of them
Leftmost(p) ==
    CHOOSE o \in Occurrences(p) : \A o2 \in Occurrences(p) : o[1] <= o2[1]

\* YYYYMMDD and HHMMSS with the punctuation of ISO 8601 put in
IsoText(date, time) ==
    SubSeq(date, 1, 4) \o <<"-">> \o SubSeq(date, 5, 6) \o <<"-">>
    \o SubSeq(date, 7, 8) \o <<"T">> \o SubSeq(time, 1, 2) \o <<":">>
    \o SubSeq(time, 3, 4) \o <<":">> \o SubSeq(time, 5, 6)

\* the digits are a date of the calendar and a time of day
IsDateTime(date, time) ==
    LET y == ToInt(SubSeq(date, 1, 4))
        m == ToInt(SubSeq(date, 5, 6))
        d == ToInt(SubSeq(date, 7, 8))
    IN  /\ y >= 1 /\ m >= 1 /\ m <= 12 /\ d >= 1 /\ d <= DaysIn(y, m)
        /\ ToInt(SubSeq(time, 1, 2)) <= 23
        /\ ToInt(SubSeq(time, 3, 4)) <= 59
        /\ ToInt(SubSeq(time, 5, 6)) <= 59

\* the constructor has run and nothing else has
Parsed == pc # "new" /\ calls = <<>>

\* C8 as stated: for every path that holds a substring of the pattern, the
\* parser returns the digits after (SM|SL)_ and the date and time in ISO 8601.
C8_ParserReturnsForEveryMatch ==
    (Parsed /\ Occurrences(file_path) # {}) =>
        /\ err = "none"
        /\ \E o \in Occurrences(file_path) :
              LET f == FieldsAt(file_path, o[1], o[2], o[3])
              IN  image_id = f.id /\ timestamp = IsoText(f.date, f.time)

\* C8 as amended: for every path whose leftmost substring of the pattern
\* carries a date of the calendar and a time of day, the parser returns the
\* digits after (SM|SL)_ of that substring and its date and time in ISO 8601.
C8_ParserReturnsLeftmostDatedMatch ==
    (Parsed /\ Occurrences(file_path) # {}) =>
        LET o == Leftmost(file_path)
            f == FieldsAt(file_path, o[1], o[2], o[3])
        IN  IsDateTime(f.date, f.time) =>
                /\ err = "none"
                /\ image_id = f.id
                /\ timestamp = IsoText(f.date, f.time)

\* the path of the tests has been parsed
C8_Witness ==
    /\ Parsed
    /\ file_path = TestPath
    /\ image_id = <<"9", "2", "8", "1">>
    /\ timestamp = <<"2", "0", "1", "9", "-", "0", "9", "-", "0", "3", "T",
                     "1", "4", ":", "4", "9", ":", "4", "6">>

-----------------------------------------------------------------------------
(* C9 *)

\* C9: normalize(s) with a string s other than "0-1", "-1-1" and "0-255"
\* raises ValueError, whatever the data.
C9_InvalidFormatRaises ==
    (Called("normalize") /\ LastCall.fmt \notin ValidFormats)
        => (err = "ValueError" /\ pc = "failed")

\* normalize("invalid-format") has been called, as in the tests
C9_Witness ==
    /\ Called("normalize")
    /\ LastCall.fmt = "invalid-format"
    /\ err = "ValueError"

-----------------------------------------------------------------------------
(* C10 *)

\* p is the value v, clipped to [0, 255] and truncated to uint8, where v is
\* scale * x for a sample x that is no NaN; for a decibel sample only the two
\* ends of the range are decided
IsClipped(p, x, scale) ==
    CASE x.k = "num" ->
            LET n == scale * x.n
            IN  /\ n <= 0 => p = 0
                /\ n >= 255 * x.d => p = 255
                /\ (0 < n /\ n < 255 * x.d) => (p * x.d <= n /\ n < (p + 1) * x.d)
      [] x.k = "inf" -> p = (IF x.n > 0 THEN 255 ELSE 0)
      [] x.k = "db" -> x.n <= x.d => p = 0
      [] OTHER -> TRUE

\* C10 as stated: save_as_png writes for every value x of data the pixel
\* clip(x, 0, 255) cast to uint8, with no scaling of x before the clipping.
C10_PngIsClippedData ==
    png.written =>
        \A i \in 1..Len(data.px) : IsClipped(png.px[i], data.px[i], 1)

\* C10 as amended: save_as_png writes for every value x of floating point
\* data that is no NaN the pixel clip(255 * x, 0, 255) cast to uint8.
C10_PngIsClippedScaledData ==
    (png.written /\ data.dtype \notin IntTypes) =>
        \A i \in 1..Len(data.px) : IsClipped(png.px[i], data.px[i], 255)

\* an image holding the sample 1/2 has been saved, the pixel being 127
C10_Witness ==
    /\ png.written
    /\ data.dtype \notin IntTypes
    /\ \E i \in 1..Len(data.px) : data.px[i] = Num(1, 2) /\ png.px[i] = 127

====
